---- MODULE Spec2Model ----
(***************************************************************************)
(* Model of the structure-extraction engine of document-preprocessor:     *)
(*   src/document_processor_openai.py  (multi-pass pipeline,              *)
(*                                      run_gemini_pipeline)              *)
(*   src/document_processor.py         (single-pass pipeline,             *)
(*                                      run_final_pipeline, build_tree)   *)
(*                                                                         *)
(* Texts are sequences of one-character strings.  "n" stands for the      *)
(* newline character, "s" for the space, "d" for the full stop, "h" and   *)
(* "a" for ordinary letters.  Offsets are 0-based as in Python; the       *)
(* Python slice, rfind and strip are modelled by the operators below.     *)
(***************************************************************************)
EXTENDS Integers, Sequences, FiniteSets, TLC

\* ------------------------------------------------------------------------
\* Bounds of the model
\* ------------------------------------------------------------------------
MaxTextLen == 7      \* longest text handed to chunk_text_semantic on its own
MaxChunks == 4       \* cap on the spans a chunking loop may emit
MaxChunkLen == 3     \* longest text_chunk handed to _extract_structure_gemini on its own
MaxItems == 2        \* most items in one extractor response (extraction on its own)
MaxDocLen == 5       \* longest document given to run_gemini_pipeline
MaxResp == 2         \* most candidates one extractor call of the pipeline gets accepted
MaxFinalLen == 7     \* longest document given to run_final_pipeline
MaxHeaders == 2      \* most header records the extractor returns in one run_final_pipeline
MaxCand == 2         \* most raw candidates in one reconciliation
MaxParentLen == 2    \* longest parent text of one reconciliation
MaxFlat == 4         \* longest flat list given to build_tree

\* ------------------------------------------------------------------------
\* Program constants, scaled down (the source values are given on the right)
\* ------------------------------------------------------------------------
OPENAI_CHUNK_SIZE == 4     \* chunk_size_chars=30000   (document_processor_openai.py)
OPENAI_OVERLAP == 2        \* overlap_chars=3000       (document_processor_openai.py)
FINAL_CHUNK_SIZE == 6      \* chunk_size_chars=100000  (document_processor.py)
FINAL_OVERLAP == 3         \* overlap_chars=20000      (document_processor.py)
FINAL_LOOKBACK == 2        \* ideal_end - 5000         (document_processor.py)

DETAIL_CHUNK_SIZE_THRESHOLD == 4   \* = 30000        (document_processor_openai.py)
RETRIES == 3               \* retries = 3               (document_processor_openai.py)

NL == "n"
SP == "s"
DOT == "d"
ChunkAlphabet == {"n", "s", "d", "a"}
DocAlphabet == {"h", "n"}

\* TYPE_MAPPING; the five Thai labels are written in transliteration
ThaiLabels == {"phak", "laksana", "muad", "suan", "matra"}

TYPE_MAPPING ==
    [l \in ThaiLabels |->
        CASE l = "phak" -> "book"
          [] l = "laksana" -> "part"
          [] l = "muad" -> "chapter"
          [] l = "suan" -> "section"
          [] l = "matra" -> "article"]

\* what the extractor may report
Titles == { <<"h">>, <<"n">> }
Types == {"muad", "article", "preamble"}

\* separators = ["\n\n", ". ", " ", ""]
separators == << <<NL, NL>>, <<DOT, SP>>, <<SP>>, <<>> >>

\* ------------------------------------------------------------------------
\* Python primitives
\* ------------------------------------------------------------------------
SetMax(S) == CHOOSE x \in S : \A y \in S : y <= x

Min2(a, b) == IF a <= b THEN a ELSE b

Max2(a, b) == IF a >= b THEN a ELSE b

\* normalisation of a slice bound k against a length n (negative bounds
\* count from the end, everything is clamped into 0..n)
PyNorm(k, n) == IF k < 0 THEN Max2(k + n, 0) ELSE Min2(k, n)

\* s[i:j]
PySlice(s, i, j) ==
    LET a == PyNorm(i, Len(s))
        b == PyNorm(j, Len(s))
    IN  IF a >= b THEN <<>> ELSE SubSeq(s, a + 1, b)

\* s[i:]
PySliceFrom(s, i) == PySlice(s, i, Len(s))

\* s.rfind(sub, start, end)
PyRFind(s, sub, start, end) ==
    LET a == PyNorm(start, Len(s))
        b == PyNorm(end, Len(s))
        hits == {i \in a..(b - Len(sub)) : SubSeq(s, i + 1, i + Len(sub)) = sub}
    IN  IF hits = {} THEN -1 ELSE SetMax(hits)

IsSpace(c) == c \in {NL, SP}

\* s.lstrip(), s.rstrip(), s.strip()
RECURSIVE PyLStrip(_)
PyLStrip(s) == IF s # <<>> /\ IsSpace(Head(s)) THEN PyLStrip(Tail(s)) ELSE s

RECURSIVE PyRStrip(_)
PyRStrip(s) ==
    IF s # <<>> /\ IsSpace(s[Len(s)]) THEN PyRStrip(SubSeq(s, 1, Len(s) - 1)) ELSE s

PyStrip(s) == PyRStrip(PyLStrip(s))

AllTexts(alphabet, maxlen) == UNION {[1..k -> alphabet] : k \in 0..maxlen}

\* items of a response: well-formed candidate records, whose start_index may
\* lie before or past the chunk, and one malformed record (no start_index)
ItemsFor(maxlen) ==
    [type : Types, title : Titles, start_index : (-1)..(maxlen + 1)]
        \cup { [type |-> "muad", title |-> <<"h">>] }

\* the items the extractor calls of the pipeline draw from
PipeItems ==
    [type : Types, title : { <<"h">> }, start_index : (-1)..(MaxDocLen + 1)]
        \cup { [type |-> "muad", title |-> <<"h">>] }

SeqsUpTo(S, n) == UNION {[1..k -> S] : k \in 0..n}

\* what extract_json_from_response makes of the response text: a JSON list,
\* some other text (None or a non-list), or the empty text
Responses ==
    {[kind |-> "list", items |-> q] : q \in SeqsUpTo(ItemsFor(MaxChunkLen), MaxItems)}
        \cup { [kind |-> "text"], [kind |-> "empty"] }

\* ------------------------------------------------------------------------
\* State
\* ------------------------------------------------------------------------
VARIABLES
    impl,        \* which chunk_text_semantic runs: "openai" or "final"
    text,        \* chunk_text_semantic: the argument text
    start_char,  \* chunk_text_semantic: the loop variable start_char
    chunks,      \* chunk_text_semantic: the list of spans built so far
    cpc,         \* chunk_text_semantic: "call", "loop" or "return"
    chunk_size_chars, \* chunk_text_semantic: the argument chunk_size_chars
    text_chunk,      \* _extract_structure_gemini: the argument text_chunk
    global_offset,   \* _extract_structure_gemini: the argument global_offset
    attempt,         \* _extract_structure_gemini: the retry loop variable
    response,        \* _extract_structure_gemini: nodes_in_chunk of the attempt that answered
    validated_nodes, \* _extract_structure_gemini: the list validated_nodes
    debug_info,      \* the diagnostics list the caller passes in
    epc,             \* _extract_structure_gemini: "call", "returned" or "raised"
    document,        \* run_gemini_pipeline: the argument document_text
    pc,              \* run_gemini_pipeline: the position in the function
    final_tree,      \* run_gemini_pipeline: final_tree
    cur_i,           \* index (from 1) of the top-level unit the step-2 / step-3 loop is at
    cur_j,           \* step 3: 0 at the top-level unit itself, else index of its child
    sub_chunks,      \* process_recursively: sub_chunks of the unit being detailed
    sub_j,           \* process_recursively: index (from 1) of the sub-chunk being extracted
    all_articles_raw, \* process_recursively: all_articles_raw
    articles_from,   \* history: for each entry of all_articles_raw, the sub-chunk whose call reported it
    top_level_nodes_raw, \* run_gemini_pipeline: the list handed to postprocess_nodes in step 1
    chunk_i,         \* run_final_pipeline: index (from 1) of the chunk being analysed
    all_headers,     \* run_final_pipeline: all_headers
    unique_headers,  \* run_final_pipeline: unique_headers
    cand_nodes,      \* reconciliation: the raw candidate list
    cand_permuted,   \* reconciliation: the same candidates in another order
    cand_text,       \* reconciliation: postprocess_nodes' parent_text
    cand_offset,     \* reconciliation: postprocess_nodes' global_offset
    reconciled,      \* reconciliation: the units returned for cand_nodes
    reconciled_permuted, \* reconciliation: the units returned for cand_permuted
    rpc,             \* reconciliation: "call", "postprocessed" or "deduped"
    flat_list,       \* build_tree: flat_list
    cleaned_list,    \* build_tree: cleaned_list (each node with its level)
    stack,           \* build_tree: stack, as positions in cleaned_list (0 is root)
    children,        \* build_tree: position |-> its "children" list (of positions)
    tree_k,          \* build_tree: position in cleaned_list of the node placed next
    forest,          \* build_tree: the returned forest (root["children"])
    tpc,             \* build_tree: "call", "place", "finalize" or "returned"
    worklist,        \* summarize_nodes_recursively: what the walk still has to do, next first
    calls,           \* summarize_nodes_recursively: the generate_content calls made so far
    summary,         \* summarize_nodes_recursively: path of a node |-> its "summary"
    spc              \* summarizing: "idle", "walk" or "done"

chunkVars == <<impl, text, start_char, chunks, cpc, chunk_size_chars>>

extractVars == <<text_chunk, global_offset, attempt, response, validated_nodes,
                 debug_info, epc>>

pipeVars == <<document, pc, final_tree, cur_i, cur_j, sub_chunks, sub_j,
              all_articles_raw, articles_from, top_level_nodes_raw>>

finalVars == <<chunk_i, all_headers, unique_headers>>

postVars == <<cand_nodes, cand_permuted, cand_text, cand_offset, reconciled,
              reconciled_permuted, rpc>>

treeVars == <<flat_list, cleaned_list, stack, children, tree_k, forest, tpc>>

sumVars == <<worklist, calls, summary, spc>>

vars == <<chunkVars, extractVars, pipeVars, finalVars, postVars, treeVars, sumVars>>

\* everything but the variables of one function
notChunk == <<extractVars, pipeVars, finalVars, postVars, treeVars, sumVars>>

notExtract == <<chunkVars, pipeVars, finalVars, postVars, treeVars, sumVars>>

notPost == <<chunkVars, extractVars, pipeVars, finalVars, treeVars, sumVars>>

notTree == <<chunkVars, extractVars, pipeVars, finalVars, postVars, sumVars>>

notSum == <<chunkVars, extractVars, pipeVars, finalVars, postVars>>

\* ------------------------------------------------------------------------
\* chunk_text_semantic, document_processor_openai.py
\* ------------------------------------------------------------------------
\* the for-loop over separators: the first separator that rfind locates in
\* text[lo:hi], as [pos, sep]; pos = -1 and sep = "" when none is found
RECURSIVE FirstSeparator(_, _, _, _)
FirstSeparator(s, lo, hi, k) ==
    LET pos == PyRFind(s, separators[k], lo, hi)
    IN  IF pos # -1 \/ k = Len(separators)
        THEN [pos |-> pos, sep |-> separators[k]]
        ELSE FirstSeparator(s, lo, hi, k + 1)

\* actual_end of one iteration of the openai loop
OpenaiActualEnd(s, start, ideal_end) ==
    LET f == FirstSeparator(s, start, ideal_end, 1)
    IN  IF f.pos = -1 THEN ideal_end ELSE f.pos + Len(f.sep)

\* actual_end of one iteration of the document_processor.py loop
FinalActualEnd(s, start, ideal_end) ==
    LET search_start == Max2(start, ideal_end - FINAL_LOOKBACK)
        f == FirstSeparator(s, search_start, ideal_end, 1)
    IN  IF f.pos = -1 THEN ideal_end ELSE f.pos + Len(f.sep)

\* the default of the argument chunk_size_chars
DefaultChunkSize(which) == IF which = "openai" THEN OPENAI_CHUNK_SIZE ELSE FINAL_CHUNK_SIZE

Overlap == IF impl = "openai" THEN OPENAI_OVERLAP ELSE FINAL_OVERLAP

\* the span record each implementation appends
Span(s, start, end) ==
    IF impl = "openai"
    THEN [start_char |-> start, text |-> PySlice(s, start, end)]
    ELSE [start_char |-> start, end_char |-> end,
          text |-> PySlice(s, start, end), global_start |-> start]

\* the early return for a short text, or entry into the while loop
ChunkCall ==
    /\ cpc = "call"
    /\ IF Len(text) <= chunk_size_chars
       THEN /\ chunks' = << Span(text, 0, Len(text)) >>
            /\ cpc' = "return"
       ELSE /\ chunks' = <<>>
            /\ cpc' = "loop"
    /\ start_char' = 0
    /\ UNCHANGED <<impl, text, chunk_size_chars>>
    /\ UNCHANGED notChunk

\* The while guard start_char < len(text) is a conjunct of the two loop
\* actions.  It is never false on re-entry (actual_end <= ideal_end < len(text)
\* whenever the loop continues), so the loop is only ever left by the break.
\* the last span: ideal_end >= len(text), append and break
ChunkLast ==
    /\ cpc = "loop"
    /\ start_char < Len(text)
    /\ start_char + chunk_size_chars >= Len(text)
    /\ Len(chunks) < MaxChunks
    /\ chunks' = Append(chunks,
                   IF impl = "openai"
                   THEN [start_char |-> start_char, text |-> PySliceFrom(text, start_char)]
                   ELSE Span(text, start_char, Min2(start_char + chunk_size_chars, Len(text))))
    /\ cpc' = "return"
    /\ UNCHANGED <<impl, text, start_char, chunk_size_chars>>
    /\ UNCHANGED notChunk

\* one full iteration that appends a span and moves start_char
ChunkIter ==
    /\ cpc = "loop"
    /\ start_char < Len(text)
    /\ start_char + chunk_size_chars < Len(text)
    /\ Len(chunks) < MaxChunks
    /\ LET ideal_end == start_char + chunk_size_chars
           actual_end == IF impl = "openai"
                         THEN OpenaiActualEnd(text, start_char, ideal_end)
                         ELSE FinalActualEnd(text, start_char, ideal_end)
       IN  /\ chunks' = Append(chunks, Span(text, start_char, actual_end))
           /\ start_char' = actual_end - Overlap
    /\ UNCHANGED <<impl, text, cpc, chunk_size_chars>>
    /\ UNCHANGED notChunk

\* the variables of a function that is not running
IdleChunk ==
    /\ impl = "openai"
    /\ text = <<>>
    /\ start_char = 0
    /\ chunks = <<>>
    /\ cpc = "idle"
    /\ chunk_size_chars = OPENAI_CHUNK_SIZE

IdleExtract ==
    /\ text_chunk = <<>>
    /\ global_offset = 0
    /\ attempt = 0
    /\ response = [kind |-> "none"]
    /\ validated_nodes = <<>>
    /\ debug_info = <<>>
    /\ epc = "idle"

IdlePipe ==
    /\ document = <<>>
    /\ pc = "idle"
    /\ final_tree = <<>>
    /\ cur_i = 0
    /\ cur_j = 0
    /\ sub_chunks = <<>>
    /\ sub_j = 0
    /\ all_articles_raw = <<>>
    /\ articles_from = <<>>
    /\ top_level_nodes_raw = <<>>

IdleFinal ==
    /\ chunk_i = 0
    /\ all_headers = <<>>
    /\ unique_headers = <<>>

IdlePost ==
    /\ cand_nodes = <<>>
    /\ cand_permuted = <<>>
    /\ cand_text = <<>>
    /\ cand_offset = 0
    /\ reconciled = <<>>
    /\ reconciled_permuted = <<>>
    /\ rpc = "idle"

IdleSum ==
    /\ worklist = <<>>
    /\ calls = <<>>
    /\ summary = <<>>
    /\ spc = "idle"

IdleTree ==
    /\ flat_list = <<>>
    /\ cleaned_list = <<>>
    /\ stack = <<>>
    /\ children = <<>>
    /\ tree_k = 0
    /\ forest = <<>>
    /\ tpc = "idle"

InitChunk ==
    /\ impl \in {"openai", "final"}
    /\ text \in AllTexts(ChunkAlphabet, MaxTextLen)
    /\ start_char = 0
    /\ chunks = <<>>
    /\ cpc = "call"
    /\ chunk_size_chars = DefaultChunkSize(impl)
    /\ IdleExtract
    /\ IdlePipe
    /\ IdleFinal
    /\ IdlePost
    /\ IdleTree
    /\ IdleSum

NextChunk == ChunkCall \/ ChunkLast \/ ChunkIter

SpecChunk == InitChunk /\ [][NextChunk]_vars

\* ------------------------------------------------------------------------
\* _extract_structure_gemini, document_processor_openai.py
\* ------------------------------------------------------------------------
\* isinstance(node, dict) and all(k in node for k in ['type','title','start_index'])
WellFormed(node) == {"type", "title", "start_index"} \subseteq DOMAIN node

\* (mutant) the chain of checks without the line-start check
GateVerdict_NoLineStart(node, chunk) ==
    IF ~WellFormed(node) THEN "malformed"
    ELSE IF ~(0 <= node.start_index /\ node.start_index < Len(chunk))
         THEN "Index out of bounds"
         ELSE IF PyStrip(PySlice(chunk, node.start_index,
                                 node.start_index + Len(node.title)))
                   # PyStrip(node.title)
         THEN "Title mismatch with source text"
         ELSE "ok"

\* the chain of checks of the validation loop: "ok", or the reason logged
GateVerdict(node, chunk) ==
    IF ~WellFormed(node) THEN "malformed"
    ELSE LET local_start_index == node.start_index
             title_from_llm == node.title
         IN  IF ~(0 <= local_start_index /\ local_start_index < Len(chunk))
             THEN "Index out of bounds"
             ELSE IF ~(local_start_index = 0 \/ chunk[local_start_index] = NL)
             THEN "Node not at line start"
             ELSE IF PyStrip(PySlice(chunk, local_start_index,
                                     local_start_index + Len(title_from_llm)))
                       # PyStrip(title_from_llm)
             THEN "Title mismatch with source text"
             ELSE "ok"

\* TYPE_MAPPING.get(t, t)
MapType(t) == IF t \in DOMAIN TYPE_MAPPING THEN TYPE_MAPPING[t] ELSE t

\* the node as appended to validated_nodes
Accepted(node, offset) ==
    [type |-> MapType(node.type), title |-> node.title,
     start_index |-> node.start_index,
     global_start |-> node.start_index + offset]

\* the record the loop appends to debug_info for a node it drops
DropRecord(node, chunk) ==
    LET v == GateVerdict(node, chunk)
    IN  IF v = "malformed"
        THEN [kind |-> "validation_skip", failed_node |-> node]
        ELSE [kind |-> "validation_fail_reason", reason |-> v, failed_node |-> node]

\* the validation loop over nodes_in_chunk: validated_nodes and the records
\* appended to debug_info, item by item
RECURSIVE ValidateLoop(_, _, _, _, _)
ValidateLoop(items, k, chunk, offset, acc) ==
    IF k > Len(items) THEN acc
    ELSE IF GateVerdict(items[k], chunk) = "ok"
         THEN ValidateLoop(items, k + 1, chunk, offset,
                  [acc EXCEPT !.validated = Append(@, Accepted(items[k], offset))])
         ELSE ValidateLoop(items, k + 1, chunk, offset,
                  [acc EXCEPT !.log = Append(@, DropRecord(items[k], chunk))])

\* an attempt whose model.generate_content call answers: the response is
\* logged, parsed and validated, and validated_nodes is returned
ExtractReturns ==
    /\ epc = "call"
    /\ \E r \in Responses :
         LET out == IF r.kind = "list"
                    THEN ValidateLoop(r.items, 1, text_chunk, global_offset,
                                      [validated |-> <<>>, log |-> <<>>])
                    ELSE [validated |-> <<>>,
                          log |-> IF r.kind = "text"
                                  THEN << [kind |-> "parsing_error"] >>
                                  ELSE <<>>]
         IN  /\ response' = r
             /\ validated_nodes' = out.validated
             /\ debug_info' = debug_info \o << [kind |-> "response"] >> \o out.log
    /\ epc' = "returned"
    /\ UNCHANGED <<text_chunk, global_offset, attempt>>
    /\ UNCHANGED notExtract

\* an attempt that raises: the error is logged, and the call is retried or,
\* on the last attempt, the exception is raised to the caller
ExtractAttemptFails ==
    /\ epc = "call"
    /\ debug_info' = Append(debug_info, [kind |-> "error", attempt |-> attempt + 1])
    /\ IF attempt < RETRIES - 1
       THEN /\ attempt' = attempt + 1
            /\ epc' = "call"
       ELSE /\ attempt' = attempt
            /\ epc' = "raised"
    /\ UNCHANGED <<text_chunk, global_offset, response, validated_nodes>>
    /\ UNCHANGED notExtract

InitExtract ==
    /\ text_chunk \in AllTexts(DocAlphabet, MaxChunkLen)
    /\ global_offset \in {0, 2}
    /\ attempt = 0
    /\ response = [kind |-> "none"]
    /\ validated_nodes = <<>>
    /\ debug_info = <<>>
    /\ epc = "call"
    /\ IdleChunk
    /\ IdlePipe
    /\ IdleFinal
    /\ IdlePost
    /\ IdleTree
    /\ IdleSum

NextExtract == ExtractReturns \/ ExtractAttemptFails

SpecExtract == InitExtract /\ [][NextExtract]_vars

\* ------------------------------------------------------------------------
\* postprocess_nodes, document_processor_openai.py
\* ------------------------------------------------------------------------
SetMin(S) == CHOOSE x \in S : \A y \in S : x <= y

\* sorted(S)
RECURSIVE SortSet(_)
SortSet(S) == IF S = {} THEN <<>> ELSE <<SetMin(S)>> \o SortSet(S \ {SetMin(S)})

\* {node['global_start']: node for node in nodes}[g]: the last node of the
\* list with that global_start
DictValue(nodes, g) ==
    nodes[SetMax({k \in 1..Len(nodes) : nodes[k].global_start = g})]

\* (mutant) the text sliced at the global offsets, not at those local to
\* the parent text
Unit_GlobalSlice(node, end, parent_text, offset) ==
    LET node_text == PySlice(parent_text, node.global_start, end)
    IN  IF "start_index" \in DOMAIN node
        THEN [type |-> node.type, title |-> node.title,
              start_index |-> node.start_index,
              global_start |-> node.global_start, global_end |-> end,
              text |-> node_text, children |-> <<>>]
        ELSE [type |-> node.type, title |-> node.title,
              global_start |-> node.global_start, global_end |-> end,
              text |-> node_text, children |-> <<>>]

\* the node with global_end, text and children set
Unit(node, end, parent_text, offset) ==
    LET node_text == PySlice(parent_text, node.global_start - offset, end - offset)
    IN  IF "start_index" \in DOMAIN node
        THEN [type |-> node.type, title |-> node.title,
              start_index |-> node.start_index,
              global_start |-> node.global_start, global_end |-> end,
              text |-> node_text, children |-> <<>>]
        ELSE [type |-> node.type, title |-> node.title,
              global_start |-> node.global_start, global_end |-> end,
              text |-> node_text, children |-> <<>>]

InScope(node, offset, parent_end) ==
    /\ "global_start" \in DOMAIN node
    /\ offset <= node.global_start
    /\ node.global_start < parent_end

postprocess_nodes(nodes, parent_text, offset) ==
    IF nodes = <<>> THEN <<>>
    ELSE
      LET parent_end == offset + Len(parent_text)
          Scoped(node) == InScope(node, offset, parent_end)
          scoped_nodes == SelectSeq(nodes, Scoped)
          starts == SortSet({scoped_nodes[k].global_start : k \in 1..Len(scoped_nodes)})
      IN  [k \in 1..Len(starts) |->
              Unit(DictValue(scoped_nodes, starts[k]),
                   IF k < Len(starts) THEN starts[k + 1] ELSE parent_end,
                   parent_text, offset)]

\* ------------------------------------------------------------------------
\* run_gemini_pipeline, document_processor_openai.py
\*
\* The pipeline calls _extract_structure_gemini once per scope or sub-chunk.
\* A call that returns hands back the items the validation loop accepted;
\* the items it drops change nothing but debug_info, which
\* run_gemini_pipeline only ever appends to and which is followed in
\* SpecExtract.
\* ------------------------------------------------------------------------
\* the lists a call _extract_structure_gemini(chunk, offset, ...) can return
\* (at most MaxResp accepted items)
ValidatedLists(chunk, offset) ==
    LET ok == {node \in PipeItems : GateVerdict(node, chunk) = "ok"}
    IN  {[k \in 1..Len(q) |-> Accepted(q[k], offset)] : q \in SeqsUpTo(ok, MaxResp)}

PREAMBLE == [type |-> "preamble", title |-> <<"P">>, global_start |-> 0]

\* (mutant) no preamble is ever inserted
InsertPreamble_Never(raw) == raw

\* if not top_level_nodes_raw or top_level_nodes_raw[0].get('global_start', 0) > 0:
\*     top_level_nodes_raw.insert(0, {... 'global_start': 0})
InsertPreamble(raw) ==
    IF raw = <<>> \/ raw[1].global_start > 0 THEN <<PREAMBLE>> \o raw ELSE raw

\* step 1: the architect call returns; preamble and postprocess_nodes
Step1 ==
    /\ pc = "step1"
    /\ \E raw \in ValidatedLists(document, 0) :
         LET tree == postprocess_nodes(InsertPreamble(raw), document, 0)
         IN  /\ top_level_nodes_raw' = InsertPreamble(raw)
             /\ final_tree' = tree
    /\ pc' = "step1post"
    /\ UNCHANGED <<document, cur_i, cur_j, sub_chunks, sub_j, all_articles_raw, articles_from>>
    /\ UNCHANGED <<chunkVars, extractVars, finalVars, postVars, treeVars, sumVars>>

\* step 1, after postprocess_nodes: if not final_tree: return {"error": ...};
\* otherwise the loop of step 2 starts
Step1Check ==
    /\ pc = "step1post"
    /\ pc' = IF final_tree = <<>> THEN "error" ELSE "step2"
    /\ cur_i' = 1
    /\ top_level_nodes_raw' = <<>>
    /\ UNCHANGED <<document, final_tree, cur_j, sub_chunks, sub_j, all_articles_raw,
                   articles_from>>
    /\ UNCHANGED <<chunkVars, extractVars, finalVars, postVars, treeVars, sumVars>>

Step2Skips(parent_node) ==
    PyStrip(parent_node.text) = <<>> \/ parent_node.type = "preamble"

\* step 2, a parent the loop passes over
Step2Skip ==
    /\ pc = "step2"
    /\ cur_i <= Len(final_tree)
    /\ Step2Skips(final_tree[cur_i])
    /\ cur_i' = cur_i + 1
    /\ UNCHANGED <<document, pc, final_tree, cur_j, sub_chunks, sub_j, all_articles_raw,
                   articles_from, top_level_nodes_raw>>
    /\ UNCHANGED <<chunkVars, extractVars, finalVars, postVars, treeVars, sumVars>>

\* step 2, the surveyor call for a parent returns and its children are attached
Step2Survey ==
    /\ pc = "step2"
    /\ cur_i <= Len(final_tree)
    /\ ~Step2Skips(final_tree[cur_i])
    /\ \E mid_level_nodes_raw \in
            ValidatedLists(final_tree[cur_i].text, final_tree[cur_i].global_start) :
         final_tree' = [final_tree EXCEPT ![cur_i].children =
                          postprocess_nodes(mid_level_nodes_raw, final_tree[cur_i].text,
                                            final_tree[cur_i].global_start)]
    /\ cur_i' = cur_i + 1
    /\ UNCHANGED <<document, pc, cur_j, sub_chunks, sub_j, all_articles_raw,
                   articles_from, top_level_nodes_raw>>
    /\ UNCHANGED <<chunkVars, extractVars, finalVars, postVars, treeVars, sumVars>>

\* step 2 is over: process_recursively(final_tree) starts
Step2Done ==
    /\ pc = "step2"
    /\ cur_i > Len(final_tree)
    /\ pc' = "step3"
    /\ cur_i' = 1
    /\ cur_j' = 0
    /\ UNCHANGED <<document, final_tree, sub_chunks, sub_j, all_articles_raw,
                   articles_from, top_level_nodes_raw>>
    /\ UNCHANGED <<chunkVars, extractVars, finalVars, postVars, treeVars, sumVars>>

\* the unit process_recursively is at
Target == IF cur_j = 0 THEN final_tree[cur_i] ELSE final_tree[cur_i].children[cur_j]

\* the position after the unit at (cur_i, cur_j), which is not descended into
AfterTarget ==
    IF cur_j # 0 /\ cur_j < Len(final_tree[cur_i].children)
    THEN <<cur_i, cur_j + 1>> ELSE <<cur_i + 1, 0>>

Detailed(node) ==
    PyStrip(node.text) # <<>> /\ node.type \notin {"preamble", "article"}

\* if node.get('children'): process_recursively(node['children'])
Step3Descend ==
    /\ pc = "step3"
    /\ cur_i <= Len(final_tree)
    /\ cur_j = 0
    /\ final_tree[cur_i].children # <<>>
    /\ cur_j' = 1
    /\ UNCHANGED <<document, pc, final_tree, cur_i, sub_chunks, sub_j, all_articles_raw,
                   articles_from, top_level_nodes_raw>>
    /\ UNCHANGED <<chunkVars, extractVars, finalVars, postVars, treeVars, sumVars>>

\* a unit without children that is blank, a preamble or an article
Step3Skip ==
    /\ pc = "step3"
    /\ cur_i <= Len(final_tree)
    /\ Target.children = <<>>
    /\ ~Detailed(Target)
    /\ cur_i' = AfterTarget[1]
    /\ cur_j' = AfterTarget[2]
    /\ UNCHANGED <<document, pc, final_tree, sub_chunks, sub_j, all_articles_raw,
                   articles_from, top_level_nodes_raw>>
    /\ UNCHANGED <<chunkVars, extractVars, finalVars, postVars, treeVars, sumVars>>

\* a unit to detail whose text is within the threshold: one sub-chunk
Step3Whole ==
    /\ pc = "step3"
    /\ cur_i <= Len(final_tree)
    /\ Target.children = <<>>
    /\ Detailed(Target)
    /\ ~(Len(Target.text) > DETAIL_CHUNK_SIZE_THRESHOLD)
    /\ sub_chunks' = << [start_char |-> 0, text |-> Target.text] >>
    /\ all_articles_raw' = <<>>
    /\ articles_from' = <<>>
    /\ sub_j' = 1
    /\ pc' = "step3sub"
    /\ UNCHANGED <<document, final_tree, cur_i, cur_j, top_level_nodes_raw>>
    /\ UNCHANGED <<chunkVars, extractVars, finalVars, postVars, treeVars, sumVars>>

\* a unit to detail whose text is over the threshold: chunk_text_semantic
Step3Chunk ==
    /\ pc = "step3"
    /\ cur_i <= Len(final_tree)
    /\ Target.children = <<>>
    /\ Detailed(Target)
    /\ Len(Target.text) > DETAIL_CHUNK_SIZE_THRESHOLD
    /\ impl' = "openai"
    /\ text' = Target.text
    /\ chunk_size_chars' = DETAIL_CHUNK_SIZE_THRESHOLD
    /\ cpc' = "call"
    /\ start_char' = 0
    /\ chunks' = <<>>
    /\ pc' = "step3chunk"
    /\ UNCHANGED <<document, final_tree, cur_i, cur_j, sub_chunks, sub_j, all_articles_raw,
                   articles_from, top_level_nodes_raw>>
    /\ UNCHANGED <<extractVars, finalVars, postVars, treeVars, sumVars>>

\* chunk_text_semantic has returned the sub-chunks
Step3Chunked ==
    /\ pc = "step3chunk"
    /\ cpc = "return"
    /\ sub_chunks' = chunks
    /\ all_articles_raw' = <<>>
    /\ articles_from' = <<>>
    /\ sub_j' = 1
    /\ pc' = "step3sub"
    /\ cpc' = "idle"
    /\ text' = <<>>
    /\ start_char' = 0
    /\ chunks' = <<>>
    /\ UNCHANGED <<impl, chunk_size_chars>>
    /\ UNCHANGED <<document, final_tree, cur_i, cur_j, top_level_nodes_raw>>
    /\ UNCHANGED <<extractVars, finalVars, postVars, treeVars, sumVars>>

\* (mutant) the offset of the unit alone, without the sub-chunk's start_char
ChunkOffset_NoStart(node, sub_chunk) == node.global_start

\* chunk_offset = node_offset + sub_chunk['start_char']
ChunkOffset(node, sub_chunk) == node.global_start + sub_chunk.start_char

\* the detailer call for sub-chunk sub_j returns; all_articles_raw.extend(...)
Step3Sub ==
    /\ pc = "step3sub"
    /\ sub_j <= Len(sub_chunks)
    /\ \E articles_in_chunk \in
            ValidatedLists(sub_chunks[sub_j].text, ChunkOffset(Target, sub_chunks[sub_j])) :
         /\ all_articles_raw' = all_articles_raw \o articles_in_chunk
         /\ articles_from' = articles_from \o [k \in 1..Len(articles_in_chunk) |-> sub_j]
    /\ sub_j' = sub_j + 1
    /\ UNCHANGED <<document, pc, final_tree, cur_i, cur_j, sub_chunks, top_level_nodes_raw>>
    /\ UNCHANGED <<chunkVars, extractVars, finalVars, postVars, treeVars, sumVars>>

\* node['children'] = postprocess_nodes(all_articles_raw, node_text, node_offset)
Step3Attach ==
    /\ pc = "step3sub"
    /\ sub_j > Len(sub_chunks)
    /\ LET kids == postprocess_nodes(all_articles_raw, Target.text, Target.global_start)
       IN  final_tree' = IF cur_j = 0
                         THEN [final_tree EXCEPT ![cur_i].children = kids]
                         ELSE [final_tree EXCEPT ![cur_i].children[cur_j].children = kids]
    /\ pc' = "step3attached"
    /\ UNCHANGED <<document, cur_i, cur_j, sub_chunks, sub_j, all_articles_raw,
                   articles_from, top_level_nodes_raw>>
    /\ UNCHANGED <<chunkVars, extractVars, finalVars, postVars, treeVars, sumVars>>

\* the loop of process_recursively goes on to the next unit (the children
\* just attached are not visited)
Step3Advance ==
    /\ pc = "step3attached"
    /\ cur_i' = AfterTarget[1]
    /\ cur_j' = AfterTarget[2]
    /\ pc' = "step3"
    /\ all_articles_raw' = <<>>
    /\ articles_from' = <<>>
    /\ sub_chunks' = <<>>
    /\ sub_j' = 0
    /\ UNCHANGED <<document, final_tree, top_level_nodes_raw>>
    /\ UNCHANGED <<chunkVars, extractVars, finalVars, postVars, treeVars, sumVars>>

\* process_recursively(final_tree) is over: return {"tree": final_tree}
Step3Done ==
    /\ pc = "step3"
    /\ cur_i > Len(final_tree)
    /\ pc' = "done"
    /\ UNCHANGED <<document, final_tree, cur_i, cur_j, sub_chunks, sub_j, all_articles_raw,
                   articles_from, top_level_nodes_raw>>
    /\ UNCHANGED <<chunkVars, extractVars, finalVars, postVars, treeVars, sumVars>>

\* a call of _extract_structure_gemini fails on its last retry: the exception
\* leaves run_gemini_pipeline
PipeRaise ==
    /\ \/ pc = "step1"
       \/ pc = "step2" /\ cur_i <= Len(final_tree) /\ ~Step2Skips(final_tree[cur_i])
       \/ pc = "step3sub" /\ sub_j <= Len(sub_chunks)
    /\ pc' = "raised"
    /\ UNCHANGED <<document, final_tree, cur_i, cur_j, sub_chunks, sub_j, all_articles_raw,
                   articles_from, top_level_nodes_raw>>
    /\ UNCHANGED <<chunkVars, extractVars, finalVars, postVars, treeVars, sumVars>>

\* the call of run_gemini_pipeline, at the architect call of step 1
Init ==
    /\ document \in AllTexts(DocAlphabet, MaxDocLen)
    /\ pc = "step1"
    /\ final_tree = <<>>
    /\ cur_i = 0
    /\ cur_j = 0
    /\ sub_chunks = <<>>
    /\ sub_j = 0
    /\ all_articles_raw = <<>>
    /\ articles_from = <<>>
    /\ top_level_nodes_raw = <<>>
    /\ IdleExtract
    /\ IdleChunk
    /\ IdleFinal
    /\ IdlePost
    /\ IdleTree
    /\ IdleSum

Next ==
    \/ Step1 \/ Step1Check
    \/ Step2Skip \/ Step2Survey \/ Step2Done
    \/ Step3Descend \/ Step3Skip \/ Step3Whole \/ Step3Chunk
    \/ ChunkCall \/ ChunkIter \/ ChunkLast
    \/ Step3Chunked \/ Step3Sub \/ Step3Attach \/ Step3Advance \/ Step3Done
    \/ PipeRaise

Spec == Init /\ [][Next]_vars

\* ------------------------------------------------------------------------
\* run_final_pipeline, document_processor.py (steps 2 and 3)
\* ------------------------------------------------------------------------
FinalAlphabet == {"a", "s"}

\* the header records the extractor may return: well-formed (all four keys),
\* with a start_index that may lie before or past the chunk
HeaderItems ==
    [type : {"article"}, title : { <<"matra", "1">> },
     start_index : (-1)..(MaxFinalLen + 1), end_index : {0}]
      \cup [type : {"chapter"}, title : { <<"note">> },
            start_index : (-1)..(MaxFinalLen + 1), end_index : {0}]

\* header["global_start"] = ...; header["global_end"] = ...
Located(header, chunk) ==
    [type |-> header.type, title |-> header.title,
     start_index |-> header.start_index, end_index |-> header.end_index,
     global_start |-> header.start_index + chunk.global_start,
     global_end |-> header.end_index + chunk.global_start]

\* sorted(list({h['global_start']: h for h in all_headers}.values()), key=...)
UniqueHeaders(headers) ==
    LET starts == SortSet({headers[k].global_start : k \in 1..Len(headers)})
    IN  [k \in 1..Len(starts) |-> DictValue(headers, starts[k])]

\* the preamble node inserted when the first header starts after offset 0
WithPreamble(unique) ==
    IF unique # <<>> /\ unique[1].global_start > 0
    THEN << [type |-> "preamble", title |-> <<"Preamble">>, global_start |-> 0,
             global_end |-> unique[1].global_start] >> \o unique
    ELSE unique

\* the header with global_end and text set
Bounded(header, end, doc) ==
    IF "start_index" \in DOMAIN header
    THEN [type |-> header.type, title |-> header.title,
          start_index |-> header.start_index, end_index |-> header.end_index,
          global_start |-> header.global_start, global_end |-> end,
          text |-> PySlice(doc, header.global_start, end)]
    ELSE [type |-> header.type, title |-> header.title,
          global_start |-> header.global_start, global_end |-> end,
          text |-> PySlice(doc, header.global_start, end)]

\* step 3 of run_final_pipeline: dedup and sort, preamble, ends, texts
FinalUnits(headers, doc) ==
    LET unique == WithPreamble(UniqueHeaders(headers))
    IN  [k \in 1..Len(unique) |->
            Bounded(unique[k],
                    IF k < Len(unique) THEN unique[k + 1].global_start ELSE Len(doc),
                    doc)]

\* chunks = chunk_text_semantic(document_text) has returned
FinalChunked ==
    /\ pc = "f_chunking"
    /\ cpc = "return"
    /\ pc' = "f_extract"
    /\ chunk_i' = 1
    /\ UNCHANGED <<all_headers, unique_headers>>
    /\ UNCHANGED <<document, final_tree, cur_i, cur_j, sub_chunks, sub_j, all_articles_raw,
                   articles_from, top_level_nodes_raw>>
    /\ UNCHANGED <<chunkVars, extractVars, postVars, treeVars, sumVars>>

\* the structure call for chunk chunk_i answers: its well-formed headers are
\* located in the document and appended to all_headers
FinalExtract ==
    /\ pc = "f_extract"
    /\ chunk_i <= Len(chunks)
    /\ \E headers_in_chunk \in SeqsUpTo(HeaderItems, MaxHeaders - Len(all_headers)) :
         all_headers' = all_headers \o
             [k \in 1..Len(headers_in_chunk) |-> Located(headers_in_chunk[k], chunks[chunk_i])]
    /\ chunk_i' = chunk_i + 1
    /\ UNCHANGED unique_headers
    /\ UNCHANGED <<pipeVars, chunkVars, extractVars, postVars, treeVars, sumVars>>

\* model.generate_content raises for a chunk: the exception leaves
\* run_final_pipeline
FinalRaise ==
    /\ pc = "f_extract"
    /\ chunk_i <= Len(chunks)
    /\ pc' = "f_raised"
    /\ UNCHANGED <<document, final_tree, cur_i, cur_j, sub_chunks, sub_j, all_articles_raw,
                   articles_from, top_level_nodes_raw>>
    /\ UNCHANGED <<chunkVars, extractVars, finalVars, postVars, treeVars, sumVars>>

\* step 3: ValueError when no header was collected, else the flat unit list
FinalPostprocess ==
    /\ pc = "f_extract"
    /\ chunk_i > Len(chunks)
    /\ IF all_headers = <<>>
       THEN /\ pc' = "f_valueerror"
            /\ unique_headers' = <<>>
       ELSE /\ pc' = "f_units"
            /\ unique_headers' = FinalUnits(all_headers, document)
    /\ UNCHANGED <<chunk_i, all_headers>>
    /\ UNCHANGED <<document, final_tree, cur_i, cur_j, sub_chunks, sub_j, all_articles_raw,
                   articles_from, top_level_nodes_raw>>
    /\ UNCHANGED <<chunkVars, extractVars, postVars, treeVars, sumVars>>

\* the call of run_final_pipeline, at chunk_text_semantic(document_text)
InitFinal ==
    /\ document \in AllTexts(FinalAlphabet, MaxFinalLen)
    /\ pc = "f_chunking"
    /\ final_tree = <<>>
    /\ cur_i = 0
    /\ cur_j = 0
    /\ sub_chunks = <<>>
    /\ sub_j = 0
    /\ all_articles_raw = <<>>
    /\ articles_from = <<>>
    /\ top_level_nodes_raw = <<>>
    /\ impl = "final"
    /\ text = document
    /\ start_char = 0
    /\ chunks = <<>>
    /\ cpc = "call"
    /\ chunk_size_chars = FINAL_CHUNK_SIZE
    /\ IdleExtract
    /\ IdleFinal
    /\ IdlePost
    /\ IdleTree
    /\ IdleSum

NextFinal ==
    \/ ChunkCall \/ ChunkIter \/ ChunkLast
    \/ FinalChunked \/ FinalExtract \/ FinalRaise \/ FinalPostprocess

SpecFinal == InitFinal /\ [][NextFinal]_vars

\* ------------------------------------------------------------------------
\* Reconciliation of raw candidates: postprocess_nodes
\* (document_processor_openai.py) and the dedup + sort of run_final_pipeline
\* applied to one candidate list and to a permutation of it
\* ------------------------------------------------------------------------
Candidates ==
    [type : {"chapter", "article"}, title : Titles, global_start : 0..(MaxParentLen + 1)]

\* every reordering of the list s
Reorderings(s) ==
    { [k \in 1..Len(s) |-> s[f[k]]] :
        f \in { g \in [1..Len(s) -> 1..Len(s)] :
                  \A a, b \in 1..Len(s) : g[a] = g[b] => a = b } }

\* postprocess_nodes on both orders
Postprocess ==
    /\ rpc = "call"
    /\ reconciled' = postprocess_nodes(cand_nodes, cand_text, cand_offset)
    /\ reconciled_permuted' = postprocess_nodes(cand_permuted, cand_text, cand_offset)
    /\ rpc' = "postprocessed"
    /\ UNCHANGED <<cand_nodes, cand_permuted, cand_text, cand_offset>>
    /\ UNCHANGED notPost

\* run_final_pipeline's unique_headers = sorted(list({...}.values())) on both orders
FinalDedup ==
    /\ rpc = "call"
    /\ reconciled' = UniqueHeaders(cand_nodes)
    /\ reconciled_permuted' = UniqueHeaders(cand_permuted)
    /\ rpc' = "deduped"
    /\ UNCHANGED <<cand_nodes, cand_permuted, cand_text, cand_offset>>
    /\ UNCHANGED notPost

InitPost ==
    /\ cand_nodes \in SeqsUpTo(Candidates, MaxCand)
    /\ cand_permuted \in Reorderings(cand_nodes)
    /\ cand_text \in AllTexts(DocAlphabet, MaxParentLen)
    /\ cand_offset \in {0, 1}
    /\ reconciled = <<>>
    /\ reconciled_permuted = <<>>
    /\ rpc = "call"
    /\ IdleChunk
    /\ IdleExtract
    /\ IdlePipe
    /\ IdleFinal
    /\ IdleTree
    /\ IdleSum

NextPost == Postprocess \/ FinalDedup

SpecPost == InitPost /\ [][NextPost]_vars

\* ------------------------------------------------------------------------
\* build_tree, document_processor.py
\* ------------------------------------------------------------------------
hierarchy ==
    [t \in {"book", "part", "chapter", "section", "article", "preamble"} |->
        CASE t = "book" -> 0
          [] t = "part" -> 1
          [] t = "chapter" -> 2
          [] t = "section" -> 3
          [] t = "article" -> 4
          [] t = "preamble" -> 5]

\* hierarchy.get(node_type, 5)
Level(node_type) == IF node_type \in DOMAIN hierarchy THEN hierarchy[node_type] ELSE 5

\* a title is a sequence of words; the first may be one of the Thai labels
TitleStartsWithLabel(title) == title # <<>> /\ Head(title) \in ThaiLabels

\* the nodes a flat list is made of: every type with a formal title, and two
\* nodes whose title is a descriptive phrase
FlatNodes ==
    [type : {"book", "part", "chapter", "section", "article", "preamble", "appendix"},
     title : { <<"muad", "1">> }]
      \cup [type : {"chapter", "preamble"}, title : { <<"note">> }]

\* the filter of the first loop
Kept(node) == TitleStartsWithLabel(node.title) \/ node.type = "preamble"

\* the node as the first loop leaves it
Cleaned(node) ==
    [type |-> node.type,
     title |-> IF node.type = "preamble" THEN <<"Preamble">> ELSE node.title,
     level |-> Level(node.type)]

\* (mutant) the stack is popped only past deeper levels
ShouldPop_Strict(top_level, node_level) == top_level > node_level

\* the condition of  while stack[-1]["level"] >= node["level"]
ShouldPop(top_level, node_level) == top_level >= node_level

\* the level of the stack entry at position p (0 is root, level -1)
LevelAt(list, p) == IF p = 0 THEN -1 ELSE list[p].level

\* the stack after  while ...: stack.pop()
RECURSIVE Popped(_, _, _)
Popped(stk, list, node_level) ==
    IF ShouldPop(LevelAt(list, stk[Len(stk)]), node_level)
    THEN Popped(SubSeq(stk, 1, Len(stk) - 1), list, node_level)
    ELSE stk

\* finalize_structure on the node at position p; a child of level >= 4 is
\* listed under "articles" as it is and is not finalized itself
RECURSIVE Finalized(_, _, _)
Finalized(list, kids, p) ==
    LET IsSection(c) == list[c].level < 4
        IsArticle(c) == list[c].level >= 4
        secs == SelectSeq(kids[p], IsSection)
        arts == SelectSeq(kids[p], IsArticle)
        sections == [k \in 1..Len(secs) |-> Finalized(list, kids, secs[k])]
        articles == [k \in 1..Len(arts) |-> list[arts[k]]]
        node == list[p]
    IN  IF p \notin DOMAIN kids
        THEN [type |-> node.type, title |-> node.title]
        ELSE IF sections # <<>> /\ articles # <<>>
        THEN [type |-> node.type, title |-> node.title,
              sections |-> sections, articles |-> articles]
        ELSE IF sections # <<>>
        THEN [type |-> node.type, title |-> node.title, sections |-> sections]
        ELSE IF articles # <<>>
        THEN [type |-> node.type, title |-> node.title, articles |-> articles]
        ELSE [type |-> node.type, title |-> node.title]

\* the call: the early return for an empty list, else the filter loop and
\* the root and stack
TreeCall ==
    /\ tpc = "call"
    /\ IF flat_list = <<>>
       THEN /\ tpc' = "returned"
            /\ UNCHANGED <<cleaned_list, stack, children, tree_k, forest>>
       ELSE /\ cleaned_list' =
                 LET kept == SelectSeq(flat_list, Kept)
                 IN  [k \in 1..Len(kept) |-> Cleaned(kept[k])]
            /\ stack' = <<0>>
            /\ children' = (0 :> <<>>)
            /\ tree_k' = 1
            /\ tpc' = "place"
            /\ UNCHANGED forest
    /\ UNCHANGED flat_list
    /\ UNCHANGED notTree

\* one iteration of  for node in cleaned_list
TreePlace ==
    /\ tpc = "place"
    /\ tree_k <= Len(cleaned_list)
    /\ LET node == cleaned_list[tree_k]
           popped == Popped(stack, cleaned_list, node.level)
           parent == popped[Len(popped)]
           had == IF parent \in DOMAIN children THEN children[parent] ELSE <<>>
       IN  /\ children' = [q \in (DOMAIN children) \cup {parent} |->
                              IF q = parent THEN Append(had, tree_k) ELSE children[q]]
           /\ stack' = IF node.level < 4 THEN Append(popped, tree_k) ELSE popped
    /\ tree_k' = tree_k + 1
    /\ UNCHANGED <<flat_list, cleaned_list, forest, tpc>>
    /\ UNCHANGED notTree

\* the loop over root["children"] and the return
TreeFinalize ==
    /\ tpc = "place"
    /\ tree_k > Len(cleaned_list)
    /\ forest' = [k \in 1..Len(children[0]) |->
                   Finalized(cleaned_list, children, children[0][k])]
    /\ tpc' = "returned"
    /\ UNCHANGED <<flat_list, cleaned_list, stack, children, tree_k>>
    /\ UNCHANGED notTree

InitTree ==
    /\ flat_list \in SeqsUpTo(FlatNodes, MaxFlat)
    /\ cleaned_list = <<>>
    /\ stack = <<>>
    /\ children = <<>>
    /\ tree_k = 0
    /\ forest = <<>>
    /\ tpc = "call"
    /\ IdleChunk
    /\ IdleExtract
    /\ IdlePipe
    /\ IdleFinal
    /\ IdlePost
    /\ IdleSum

NextTree == TreeCall \/ TreePlace \/ TreeFinalize

SpecTree == InitTree /\ [][NextTree]_vars

\* ------------------------------------------------------------------------
\* summarize_nodes_recursively, document_processor.py, run by
\* run_final_pipeline on every root of the forest of build_tree
\* ------------------------------------------------------------------------
\* A node of the forest is named by its path: <<"root", k>> followed by
\* <<"sections", j>> or <<"articles", j>> steps.
SUMMARY_FAILED == "failed"      \* the placeholder of the except branches

Sections(node) == IF "sections" \in DOMAIN node THEN node.sections ELSE <<>>

Articles(node) == IF "articles" \in DOMAIN node THEN node.articles ELSE <<>>

RECURSIVE Descend(_, _)
Descend(node, steps) ==
    IF steps = <<>> THEN node
    ELSE Descend(IF steps[1][1] = "sections"
                 THEN node.sections[steps[1][2]]
                 ELSE node.articles[steps[1][2]],
                 Tail(steps))

NodeAt(path) == Descend(forest[path[1][2]], Tail(path))

\* what one call of summarize_nodes_recursively(node) does, in order: the
\* recursive calls for the sections, the article loop, and the node's own
\* summary when it has sections or articles
Body(path) ==
    LET node == NodeAt(path)
    IN  [j \in 1..Len(Sections(node)) |->
            [op |-> "visit", path |-> Append(path, <<"sections", j>>)]]
          \o [j \in 1..Len(Articles(node)) |->
                [op |-> "article", path |-> Append(path, <<"articles", j>>)]]
          \o (IF Sections(node) # <<>> \/ Articles(node) # <<>>
              THEN << [op |-> "node", path |-> path] >>
              ELSE <<>>)

\* (mutant) an exception of generate_content leaves the walk
AfterFailure_Abort(rest) == <<>>

\* the except branches set the placeholder and fall through
AfterFailure(rest) == rest

\* for root_node in hierarchical_tree: summarize_nodes_recursively(root_node, ...)
SumStart ==
    /\ tpc = "returned"
    /\ spc = "idle"
    /\ worklist' = [k \in 1..Len(forest) |-> [op |-> "visit", path |-> << <<"root", k>> >>]]
    /\ spc' = "walk"
    /\ UNCHANGED <<calls, summary>>
    /\ UNCHANGED <<treeVars, notSum>>

\* a call of summarize_nodes_recursively is entered
SumEnter ==
    /\ spc = "walk"
    /\ worklist # <<>>
    /\ Head(worklist).op = "visit"
    /\ worklist' = Body(Head(worklist).path) \o Tail(worklist)
    /\ UNCHANGED <<calls, summary, spc>>
    /\ UNCHANGED <<treeVars, notSum>>

\* the try / except around one generate_content call: the summary is the
\* response text, or the placeholder when the call raised
Summarized(path, ok) ==
    (path :> (IF ok THEN "text" ELSE SUMMARY_FAILED)) @@ summary

\* the summary call for one article of the loop  for article in node["articles"]
SumArticle ==
    /\ spc = "walk"
    /\ worklist # <<>>
    /\ Head(worklist).op = "article"
    /\ \E ok \in BOOLEAN :
         /\ calls' = Append(calls, [path |-> Head(worklist).path, ok |-> ok])
         /\ summary' = Summarized(Head(worklist).path, ok)
         /\ worklist' = IF ok THEN Tail(worklist) ELSE AfterFailure(Tail(worklist))
    /\ UNCHANGED spc
    /\ UNCHANGED <<treeVars, notSum>>

\* the summary call for the node itself, made when it has sections or articles
SumNode ==
    /\ spc = "walk"
    /\ worklist # <<>>
    /\ Head(worklist).op = "node"
    /\ \E ok \in BOOLEAN :
         /\ calls' = Append(calls, [path |-> Head(worklist).path, ok |-> ok])
         /\ summary' = Summarized(Head(worklist).path, ok)
         /\ worklist' = IF ok THEN Tail(worklist) ELSE AfterFailure(Tail(worklist))
    /\ UNCHANGED spc
    /\ UNCHANGED <<treeVars, notSum>>

\* the loop over the roots is over
SumDone ==
    /\ spc = "walk"
    /\ worklist = <<>>
    /\ spc' = "done"
    /\ UNCHANGED <<worklist, calls, summary>>
    /\ UNCHANGED <<treeVars, notSum>>

InitSum == InitTree

NextSum ==
    \/ TreeCall \/ TreePlace \/ TreeFinalize
    \/ SumStart \/ SumEnter \/ SumArticle \/ SumNode \/ SumDone

SpecSum == InitSum /\ [][NextSum]_vars

\* ------------------------------------------------------------------------
\* Properties of chunk_text_semantic
\* ------------------------------------------------------------------------
SpanEnd(c) == c.start_char + Len(c.text)

\* C8: in both implementations, with the default size and overlap, every
\* iteration of the loop that goes round again moves start_char strictly
\* forward, so the loop cannot stay on the same start position forever.
C8_StartAdvances ==
    [][(cpc = "loop" /\ cpc' = "loop") => start_char' > start_char]_vars

\* C9: in both implementations the spans cover the text exactly: the first
\* span starts at 0, every span starts inside the text, is non-empty and is
\* the text at its start, a span starts at or before the end of the one
\* before it, the last span ends at len(text), and a text no longer than
\* the chunk size yields exactly one span holding all of it.  (Stated for
\* the non-empty texts; for the empty text both implementations return one
\* empty span.)
C9_SpansCoverText ==
    text # <<>> =>
      /\ \A i \in 1..Len(chunks) :
            /\ chunks[i].start_char \in 0..(Len(text) - 1)
            /\ chunks[i].text # <<>>
            /\ chunks[i].text = PySlice(text, chunks[i].start_char, SpanEnd(chunks[i]))
            /\ i = 1 => chunks[i].start_char = 0
            /\ i > 1 => chunks[i].start_char <= SpanEnd(chunks[i - 1])
      /\ cpc = "return" =>
            /\ Len(chunks) >= 1
            /\ SpanEnd(chunks[Len(chunks)]) = Len(text)
            /\ Len(text) <= chunk_size_chars => (Len(chunks) = 1 /\ chunks[1].text = text)

\* ------------------------------------------------------------------------
\* Properties of run_gemini_pipeline
\* ------------------------------------------------------------------------
SeqSet(q) == {q[k] : k \in 1..Len(q)}

TopUnits == SeqSet(final_tree)

MidUnits == UNION {SeqSet(u.children) : u \in TopUnits}

LowUnits == UNION {SeqSet(u.children) : u \in MidUnits}

AllUnits == TopUnits \cup MidUnits \cup LowUnits

\* the ranges of the units of the list, in order, are exactly [lo, hi)
Partitions(units, lo, hi) ==
    /\ units # <<>>
    /\ units[1].global_start = lo
    /\ \A k \in 1..(Len(units) - 1) : units[k].global_end = units[k + 1].global_start
    /\ units[Len(units)].global_end = hi

\* C1: in the returned tree the children of every unit that has children
\* partition the range of that unit: the first child starts where the parent
\* starts, each child ends where the next starts, the last child ends where
\* the parent ends.
C1_ChildrenPartitionParent ==
    pc = "done" =>
        \A u \in TopUnits \cup MidUnits :
            u.children # <<>> => Partitions(u.children, u.global_start, u.global_end)

\* the candidates the architect call returned (the inserted preamble has no
\* start_index)
Step1Candidates == {c \in SeqSet(top_level_nodes_raw) : "start_index" \in DOMAIN c}

Synthesized(u) == u.type = "preamble" /\ "start_index" \notin DOMAIN u

\* C2: for a non-empty document and any list of validated candidates of
\* step 1, the top-level units partition [0, len(document)), the first of
\* them being a synthesized preamble when no candidate starts at offset 0.
C2_TopLevelPartition ==
    /\ final_tree # <<>> => Partitions(final_tree, 0, Len(document))
    /\ (pc = "step1post" /\ document # <<>>) =>
          /\ final_tree # <<>>
          /\ (\A c \in Step1Candidates : c.global_start # 0) => Synthesized(final_tree[1])
    /\ (pc = "done" /\ document # <<>>) => final_tree # <<>>

\* step 1 got two candidates in descending order, none at offset 0
C2_Witness ==
    /\ pc = "step1post"
    /\ Len(top_level_nodes_raw) = 3
    /\ top_level_nodes_raw[2].global_start > top_level_nodes_raw[3].global_start
    /\ Len(final_tree) = 3
    /\ Synthesized(final_tree[1])

\* C3: the text of every unit, at every depth, is the slice
\* document[global_start:global_end] of the full document.
C3_TextIsDocumentSlice ==
    \A u \in AllUnits : u.text = PySlice(document, u.global_start, u.global_end)

\* a returned tree with a unit at depth 3 whose parent and grandparent both
\* start after offset 0, the parent after the grandparent
C3_Witness ==
    /\ pc = "done"
    /\ \E t \in TopUnits : \E m \in SeqSet(t.children) : \E l \in SeqSet(m.children) :
          /\ t.global_start > 0
          /\ m.global_start > t.global_start
          /\ l.text # <<>>

StrictlyAscending(units) ==
    \A k \in 1..(Len(units) - 1) : units[k].global_start < units[k + 1].global_start

\* two entries of all_articles_raw that different sub-chunk calls reported
\* for the header at one position of the unit's text
SameHeader(a, b) ==
    /\ articles_from[a] # articles_from[b]
    /\ sub_chunks[articles_from[a]].start_char + all_articles_raw[a].start_index
         = sub_chunks[articles_from[b]].start_char + all_articles_raw[b].start_index

\* C6: the units postprocess_nodes returns for a scope are strictly ascending
\* in global_start, and a header that the calls for two sub-chunks both
\* report gets one global_start and exactly one child unit.
C6_UniqueAscending ==
    /\ StrictlyAscending(final_tree)
    /\ \A u \in TopUnits \cup MidUnits : StrictlyAscending(u.children)
    /\ pc = "step3attached" =>
          \A a, b \in 1..Len(all_articles_raw) :
              SameHeader(a, b) =>
                 /\ all_articles_raw[a].global_start = all_articles_raw[b].global_start
                 /\ all_articles_raw[a].global_start
                      = Target.global_start + sub_chunks[articles_from[a]].start_char
                          + all_articles_raw[a].start_index
                 /\ Cardinality({k \in 1..Len(Target.children) :
                        Target.children[k].global_start
                            = all_articles_raw[a].global_start}) = 1

\* the children of a chunked unit have been attached after two sub-chunk
\* calls reported the same header
C6_Witness ==
    /\ pc = "step3attached"
    /\ Len(sub_chunks) >= 2
    /\ \E a, b \in 1..Len(all_articles_raw) : SameHeader(a, b)

\* C11: in the returned tree every unit of the leaf type article has an
\* empty children list, whatever types the extractor reported in the three
\* steps.
C11_ArticleHasNoChildren ==
    pc = "done" => \A u \in AllUnits : u.type = "article" => u.children = <<>>

\* offset g of the document is the start of a line
DocLineStart(g) == g = 0 \/ (g \in 1..Len(document) /\ document[g] = NL)

\* C17: every candidate accepted anywhere in run_gemini_pipeline, and so every
\* unit of the tree, begins at a line start of the full document, also when it
\* was accepted from a step-3 sub-chunk of chunk_text_semantic.
C17_UnitsAtLineStart ==
    \A u \in AllUnits \cup SeqSet(all_articles_raw) \cup SeqSet(top_level_nodes_raw) :
        DocLineStart(u.global_start)

\* C12: an extractor call that fails on every retry is confined to its span:
\* the pipeline skips that contribution and goes on, so neither
\* run_gemini_pipeline nor run_final_pipeline is ever left by the exception of
\* one call.
C12_FailureConfined == pc \notin {"raised", "f_raised"}

\* ------------------------------------------------------------------------
\* Properties of run_final_pipeline
\* ------------------------------------------------------------------------
\* C4: whatever start_index values the extractor reports, the flat unit list
\* built in step 3 is a contiguous, ordered partition of [0, len(document)):
\* it starts at 0, every unit has global_start < global_end, each unit ends
\* where the next starts, and the last ends at len(document).
C4_FlatListPartitions ==
    pc = "f_units" =>
        /\ Partitions(unique_headers, 0, Len(document))
        /\ \A k \in 1..Len(unique_headers) :
              unique_headers[k].global_start < unique_headers[k].global_end

\* ------------------------------------------------------------------------
\* Properties of the reconciliation
\* ------------------------------------------------------------------------
Identity(units) ==
    [k \in 1..Len(units) |->
        [global_start |-> units[k].global_start, type |-> units[k].type,
         title |-> units[k].title]]

\* C5: reconciliation is order-independent: postprocess_nodes, and the
\* dedup + sort of run_final_pipeline, return the same sequence of units
\* (same global_start, type and title) for every permutation of the same
\* candidates, also when two candidates share a global_start.
C5_OrderIndependent ==
    rpc \in {"postprocessed", "deduped"} =>
        Identity(reconciled) = Identity(reconciled_permuted)

\* ------------------------------------------------------------------------
\* Properties of build_tree
\* ------------------------------------------------------------------------
\* the children of a node of the returned forest
Kids(node) ==
    (IF "sections" \in DOMAIN node THEN SeqSet(node.sections) ELSE {})
      \cup (IF "articles" \in DOMAIN node THEN SeqSet(node.articles) ELSE {})

RECURSIVE LevelsIncrease(_)
LevelsIncrease(node) ==
    \A child \in Kids(node) :
        /\ Level(child.type) > Level(node.type)
        /\ LevelsIncrease(child)

\* C10: in the forest returned by build_tree every child's hierarchy level is
\* strictly greater than its parent's, for every parent/child pair at every
\* depth.
C10_ChildLevelGreater ==
    tpc = "returned" => \A k \in 1..Len(forest) : LevelsIncrease(forest[k])

\* a returned forest three levels deep: a root with a section that has an
\* article, next to a second root
C10_Witness ==
    /\ tpc = "returned"
    /\ Len(forest) >= 2
    /\ \E k \in 1..Len(forest) :
          /\ "sections" \in DOMAIN forest[k]
          /\ \E j \in 1..Len(forest[k].sections) :
                "articles" \in DOMAIN forest[k].sections[j]

\* ------------------------------------------------------------------------
\* Properties of summarize_nodes_recursively
\* ------------------------------------------------------------------------
RECURSIVE Flatten(_)
Flatten(seqs) == IF seqs = <<>> THEN <<>> ELSE Head(seqs) \o Flatten(Tail(seqs))

\* the paths of the node at path and of every node below it
RECURSIVE PathsBelow(_)
PathsBelow(path) ==
    LET node == NodeAt(path)
    IN  {path}
          \cup UNION {PathsBelow(Append(path, <<"sections", j>>)) :
                        j \in 1..Len(Sections(node))}
          \cup {Append(path, <<"articles", j>>) : j \in 1..Len(Articles(node))}

AllPaths == UNION {PathsBelow(<< <<"root", k>> >>) : k \in 1..Len(forest)}

\* C13: once every root has been summarized, every node of the forest has a
\* summary: roots, childless nodes of a sections list and nodes of an
\* articles list alike.
C13_EveryNodeSummarized ==
    spc = "done" => \A path \in AllPaths : path \in DOMAIN summary

\* the calls of a walk in which no call fails, for the node at path
RECURSIVE ExpectedCalls(_)
ExpectedCalls(path) ==
    LET node == NodeAt(path)
    IN  Flatten([j \in 1..Len(Sections(node)) |->
                    ExpectedCalls(Append(path, <<"sections", j>>))])
          \o [j \in 1..Len(Articles(node)) |-> Append(path, <<"articles", j>>)]
          \o (IF Sections(node) # <<>> \/ Articles(node) # <<>> THEN <<path>> ELSE <<>>)

ExpectedWalk == Flatten([k \in 1..Len(forest) |-> ExpectedCalls(<< <<"root", k>> >>)])

\* C14: a summarization call that raises never aborts the walk: the node
\* gets the placeholder summary, and the calls made are those of the walk
\* without failures, in the same order.
C14_FailureDoesNotAbort ==
    calls # <<>> \/ spc = "done" =>
        LET walk == ExpectedWalk
        IN  /\ \A k \in 1..Len(calls) :
                  /\ k <= Len(walk)
                  /\ calls[k].path = walk[k]
                  /\ ~calls[k].ok /\ spc = "done" => summary[calls[k].path] = SUMMARY_FAILED
            /\ spc = "done" => Len(calls) = Len(walk)

\* a finished walk in which a call failed and later calls were still made
C14_Witness ==
    /\ spc = "done"
    /\ Len(calls) >= 3
    /\ ~calls[1].ok
    /\ calls[2].ok
    /\ ~calls[Len(calls) - 1].ok

\* ------------------------------------------------------------------------
\* build_tree against the specified stack algorithm, and its content
\* ------------------------------------------------------------------------
\* The specified stack algorithm, run on cleaned_list: pop while the top has
\* level >= the node's level; the node is a root (parent 0) when the stack is
\* then empty and otherwise a child of the top; push the node whatever its
\* level.
RECURSIVE RefPopped(_, _, _)
RefPopped(stk, list, node_level) ==
    IF stk # <<>> /\ list[stk[Len(stk)]].level >= node_level
    THEN RefPopped(SubSeq(stk, 1, Len(stk) - 1), list, node_level)
    ELSE stk

RECURSIVE RefParents(_, _, _, _)
RefParents(list, k, stk, acc) ==
    IF k > Len(list) THEN acc
    ELSE LET popped == RefPopped(stk, list, list[k].level)
             parent == IF popped = <<>> THEN 0 ELSE popped[Len(popped)]
         IN  RefParents(list, k + 1, Append(popped, k), Append(acc, parent))

\* the parent build_tree gave to the node at position k of cleaned_list
CodeParent(k) == CHOOSE q \in DOMAIN children : \E j \in 1..Len(children[q]) : children[q][j] = k

\* C15: build_tree gives every retained node the parent the specified stack
\* algorithm gives it on the same node sequence, and the children of each
\* parent are in input order.
C15_SameParentsAsStackAlgorithm ==
    tpc = "returned" /\ cleaned_list # <<>> =>
        /\ \A k \in 1..Len(cleaned_list) :
              CodeParent(k) = RefParents(cleaned_list, 1, <<>>, <<>>)[k]
        /\ \A q \in DOMAIN children :
              \A i, j \in 1..Len(children[q]) : i < j => children[q][i] < children[q][j]

\* C16: build_tree loses no content: every unit of the flat list it is given
\* is a node of the returned forest, exactly once.
C16_NoUnitLost ==
    tpc = "returned" /\ flat_list # <<>> =>
        /\ Len(cleaned_list) = Len(flat_list)
        /\ \A k \in 1..Len(cleaned_list) :
              Cardinality({q \in DOMAIN children :
                             \E j \in 1..Len(children[q]) : children[q][j] = k}) = 1
        /\ Cardinality(AllPaths) = Len(flat_list)

\* ------------------------------------------------------------------------
\* Properties of _extract_structure_gemini
\* ------------------------------------------------------------------------
\* the three checks of the validation gate, each stated on its own
InBounds(node, chunk) == node.start_index \in 0..(Len(chunk) - 1)

AtLineStart(node, chunk) ==
    node.start_index = 0 \/ PySlice(chunk, node.start_index - 1, node.start_index) = <<NL>>

TitleAtIndex(node, chunk) ==
    PyStrip(PySlice(chunk, node.start_index, node.start_index + Len(node.title)))
        = PyStrip(node.title)

PassesGate(node, chunk) ==
    /\ WellFormed(node)
    /\ InBounds(node, chunk)
    /\ AtLineStart(node, chunk)
    /\ TitleAtIndex(node, chunk)

FailsGate(node, chunk) == WellFormed(node) /\ ~PassesGate(node, chunk)

IsFailRecord(r) == r.kind = "validation_fail_reason"

\* C7: _extract_structure_gemini returns a candidate only if it is in bounds,
\* at a line start and its title is the chunk text at its index up to
\* whitespace; the candidates failing a check are not returned, each of them
\* has a record appended to debug_info, and the valid candidates of the same
\* response are all still returned, in order.
C7_GateFilters ==
    (epc = "returned" /\ response.kind = "list") =>
        LET Pass(n) == PassesGate(n, text_chunk)
            Fail(n) == FailsGate(n, text_chunk)
            passing == SelectSeq(response.items, Pass)
            failing == SelectSeq(response.items, Fail)
            failrecs == SelectSeq(debug_info, IsFailRecord)
        IN  /\ \A i \in 1..Len(validated_nodes) : Pass(validated_nodes[i])
            /\ Len(validated_nodes) = Len(passing)
            /\ \A i \in 1..Len(passing) :
                  /\ validated_nodes[i].start_index = passing[i].start_index
                  /\ validated_nodes[i].title = passing[i].title
                  /\ validated_nodes[i].global_start = passing[i].start_index + global_offset
            /\ Len(failrecs) = Len(failing)
            /\ \A i \in 1..Len(failing) : failrecs[i].failed_node = failing[i]

\* a response whose first item fails the line-start check only and whose
\* second item is valid has been answered, after a failed attempt
C7_Witness ==
    /\ epc = "returned"
    /\ response.kind = "list"
    /\ Len(response.items) = 2
    /\ WellFormed(response.items[1])
    /\ InBounds(response.items[1], text_chunk)
    /\ TitleAtIndex(response.items[1], text_chunk)
    /\ ~AtLineStart(response.items[1], text_chunk)
    /\ PassesGate(response.items[2], text_chunk)
    /\ Len(validated_nodes) = 1
    /\ attempt = 1

====
